---- MODULE Spec2Model ----
(***************************************************************************)
(* FdmBlackScholesSolver (QuantLib 1.2.1): a lazily evaluated finite-      *)
(* difference solver.  The constructor fixes the snapshot time, merges the *)
(* snapshot condition into the step conditions and fills the initial       *)
(* values and the coordinates; performCalculations rolls the initial       *)
(* values back and builds the interpolation; valueAt, deltaAt, gammaAt and *)
(* thetaAt answer from the cached interpolation.                           *)
(*                                                                         *)
(* Time is counted in ticks, OneDay ticks being 1/365 of a year.  The      *)
(* snapshot time 0.99 * min(1/365, t) is kept exactly by storing the times *)
(* of the merged condition in units of 1/Scale tick.                       *)
(*                                                                         *)
(* A grid value is a record [src, rb, ver, at]: the grid point it belongs  *)
(* to, the rollback that produced it (0: none), the process state that     *)
(* rollback read and the time it holds at (in 1/Scale tick).               *)
(***************************************************************************)
EXTENDS Integers, Sequences, FiniteSets

VARIABLES
    phase,            \* "none" | "ready" | "crashed"
    desc,             \* the FdmSolverDesc handed to the constructor
    proc,             \* state of the process behind the handle
    registered,       \* the solver observes the process handle
    calculated_,      \* LazyObject's flag: the cache is valid
    x_,               \* coordinates
    initialValues_,   \* terminal values
    resultValues_,    \* rolled-back values
    interpolation_,   \* the price interpolation
    thetaCondition_,  \* the snapshot condition
    conditions_,      \* the merged step conditions
    oobWrites,        \* elements the last copy wrote past resultValues_
    nPerform,         \* performCalculations calls since construction/notification
    nDone,            \* of these, the ones that completed
    nRollbacks,       \* rollbacks run so far (the last one's id)
    nCalls,           \* queries made so far
    lastCall          \* the last query and its outcome

vars == <<phase, desc, proc, registered, calculated_, x_, initialValues_,
          resultValues_, interpolation_, thetaCondition_, conditions_,
          oobWrites, nPerform, nDone, nRollbacks, nCalls, lastCall>>

----------------------------------------------------------------------------
(* Bounds of the model *)

MaxMaturity == 2
MaxProc == 2
MaxCalls == 2
TicksPerDay == 1

(* 0.99, as SnapNum / Scale *)
SnapNum == 99
Scale == 100

----------------------------------------------------------------------------
(* Helpers *)

Min(a, b) == IF a <= b THEN a ELSE b

MinOf(S) == CHOOSE m \in S : \A n \in S : m <= n

Prefix(s, n) == [k \in 1..Min(n, Len(s)) |-> s[k]]

StrictlyIncreasing(s) == \A k \in 1..(Len(s) - 1) : s[k] < s[k + 1]

----------------------------------------------------------------------------
(* The descriptor and the collaborators of the constructor *)

(* The meshes tried, as <<dim()[0], dim()[1]>>: one of one dimension and   *)
(* one whose size exceeds its first dimension                              *)
Meshes == {<<2, 1>>, <<2, 2>>}

(* A solver descriptor: whether the mesher and the calculator are set, the *)
(* mesh's dimensions, the maturity and the stopping times of the supplied  *)
(* step conditions, which lie in the rollback's interval [0, maturity].    *)
Descs ==
    { [mesher |-> m, calculator |-> c, d0 |-> g[1], d1 |-> g[2],
       maturity |-> T, stops |-> S] :
        m \in BOOLEAN, c \in BOOLEAN, g \in Meshes,
        T \in (-1)..MaxMaturity, S \in SUBSET (0..MaxMaturity) }

ValidDesc(d) == \A t \in d.stops : t <= d.maturity

NoDesc ==
    [mesher |-> FALSE, calculator |-> FALSE, d0 |-> 2, d1 |-> 1,
     maturity |-> 1, stops |-> {}]

(* The spots tried: a non-positive and a positive one *)
Spots == {0, 1}

Unset == [src |-> 0, rb |-> 0, ver |-> 0, at |-> 0]

NoInterpolation == [built |-> FALSE, x |-> <<>>, y |-> <<>>]

NoConditions == [stoppingTimes |-> {}, hasSnapshot |-> FALSE]

(* 1.0/365.0, in ticks *)
OneDay == TicksPerDay

(* mesher_->layout()->size() and mesher_->layout()->dim()[0] *)
LayoutSize(d) == d.d0 * d.d1

LayoutDim0(d) == d.d0

(* mesher_->location(iter, 0) of the point with index i: the layout's     *)
(* iterator runs through the first dimension fastest                       *)
Location(i, d) == i % d.d0

(* solverDesc.calculator->avgInnerValue(iter, maturity) *)
AvgInnerValue(i, d) ==
    [src |-> i, rb |-> 0, ver |-> 0, at |-> Scale * d.maturity]

(* stoppingTimes().empty() ? maturity : stoppingTimes().front() *)
FirstTime(d) == IF d.stops = {} THEN d.maturity ELSE MinOf(d.stops)

(* 0.99*std::min(1.0/365.0, ...), in 1/Scale tick *)
SnapshotTime(d) == SnapNum * Min(OneDay, FirstTime(d))

NewSnapshotCondition(d) ==
    [t |-> SnapshotTime(d), captured |-> FALSE, values |-> <<>>]

(* FdmStepConditionComposite::joinConditions: the stopping times of both,  *)
(* and the snapshot condition among the conditions                         *)
JoinConditions(snap, stops) ==
    [stoppingTimes |-> {Scale * t : t \in stops} \cup {snap.t},
     hasSnapshot |-> TRUE]

(* A variant: the supplied conditions alone, the snapshot left out *)
OnlySuppliedConditions(snap, d) ==
    [stoppingTimes |-> {Scale * t : t \in d.stops}, hasSnapshot |-> FALSE]

(* conditions_(joinConditions(thetaCondition_, solverDesc.condition)) *)
MergedConditions(snap, d) == JoinConditions(snap, d.stops)

(* A variant: the constructor without its registerWith *)
RegistersNot == FALSE

(* registerWith(process_) *)
RegisterWithProcess == TRUE

InitialValues(d) == [k \in 1..LayoutSize(d) |-> AvgInnerValue(k - 1, d)]

Coordinates(d) == [k \in 1..LayoutSize(d) |-> Location(k - 1, d)]

NewResultValues(d) == [k \in 1..LayoutDim0(d) |-> Unset]

----------------------------------------------------------------------------
(* The state before construction *)

Init ==
    /\ phase = "none"
    /\ desc = NoDesc
    /\ proc = 0
    /\ registered = FALSE
    /\ calculated_ = FALSE
    /\ x_ = <<>>
    /\ initialValues_ = <<>>
    /\ resultValues_ = <<>>
    /\ interpolation_ = NoInterpolation
    /\ thetaCondition_ = NewSnapshotCondition(NoDesc)
    /\ conditions_ = NoConditions
    /\ oobWrites = 0
    /\ nPerform = 0
    /\ nDone = 0
    /\ nRollbacks = 0
    /\ nCalls = 0
    /\ lastCall = [op |-> "none", spot |-> 1, outcome |-> "none", hit |-> FALSE,
                   ver |-> 0, rbVal |-> 0, rbSnap |-> 0, afterReject |-> FALSE]

(* FdmBlackScholesSolver::FdmBlackScholesSolver.  An empty mesher is       *)
(* dereferenced by initialValues_(mesher_->layout()->size()), an empty     *)
(* calculator by the loop's first avgInnerValue: undefined behaviour, of   *)
(* which every outcome (a failed assertion, a fault) ends the program.     *)
Construct(d) ==
    /\ phase = "none"
    /\ ValidDesc(d)
    /\ desc' = d
    /\ IF d.mesher /\ d.calculator
       THEN /\ phase' = "ready"
            /\ registered' = RegisterWithProcess
            /\ thetaCondition_' = NewSnapshotCondition(d)
            /\ conditions_' = MergedConditions(NewSnapshotCondition(d), d)
            /\ initialValues_' = InitialValues(d)
            /\ resultValues_' = NewResultValues(d)
            /\ x_' = Coordinates(d)
       ELSE /\ phase' = "crashed"
            /\ UNCHANGED <<registered, thetaCondition_, conditions_,
                           initialValues_, resultValues_, x_>>
    /\ UNCHANGED <<proc, calculated_, interpolation_, oobWrites, nPerform,
                   nDone, nRollbacks, nCalls, lastCall>>

----------------------------------------------------------------------------
(* Recalculation *)

(* What can go wrong in a recalculation: nothing, the operator's           *)
(* construction, the rollback before or after the snapshot time, the       *)
(* interpolation's construction                                            *)
FailPoints == {"none", "operator", "rollback_early", "rollback_late",
               "interpolation"}

(* What a write past the end of an array does: it ends the program, or it  *)
(* goes unnoticed                                                          *)
Undefined == {"crash", "continue"}

(* The run of a call: where it fails and what its undefined behaviour does *)
(* (a failure before the write leaves nothing undefined)                   *)
Runs == {r \in FailPoints \X Undefined : r[2] = "crash" => r[1] = "none"}

(* The solver's mutable members, and what a call did *)
Cur ==
    [calculated |-> calculated_, result |-> resultValues_,
     interp |-> interpolation_, snap |-> thetaCondition_, oob |-> oobWrites,
     nPerform |-> nPerform, nDone |-> nDone, nRollbacks |-> nRollbacks,
     threw |-> FALSE, crashed |-> FALSE]

(* FdmBackwardSolver::rollback(rhs, maturity, 0.0, ...) with the merged    *)
(* conditions: rollback rb reads the process state ver; the snapshot       *)
(* condition, if it is among the conditions and its time is reached,       *)
(* stores a copy of the values at that time                                *)
Rollback(rhs, snap, conds, maturity, rb, ver, fail) ==
    LET rolled(at) == [k \in 1..Len(rhs) |->
                          [src |-> rhs[k].src, rb |-> rb, ver |-> ver, at |-> at]]
        fires == conds.hasSnapshot /\ 0 <= snap.t /\ snap.t <= Scale * maturity
        snapAfter == IF fires
                     THEN [snap EXCEPT !.captured = TRUE, !.values = rolled(snap.t)]
                     ELSE snap
    IN  IF maturity < 0 \/ fail = "rollback_early"
        THEN [ok |-> FALSE, rhs |-> rhs, snap |-> snap]
        ELSE IF fail = "rollback_late"
        THEN [ok |-> FALSE, rhs |-> rolled(snap.t), snap |-> snapAfter]
        ELSE [ok |-> TRUE, rhs |-> rolled(0), snap |-> snapAfter]

(* std::copy(rhs.begin(), rhs.end(), resultValues_.begin()): every element *)
(* of rhs is written, the ones beyond resultValues_'s length past its end  *)
CopyToResult(rhs, result) ==
    [vals |-> [k \in 1..Len(result) |-> IF k <= Len(rhs) THEN rhs[k] ELSE result[k]],
     oob |-> IF Len(rhs) > Len(result) THEN Len(rhs) - Len(result) ELSE 0]

(* MonotonicCubicNaturalSpline(xBegin, xEnd, yBegin): needs two points and *)
(* strictly increasing x, and reads as many y as there are x               *)
SplineBuildable(x, y) ==
    Len(x) >= 2 /\ Len(x) <= Len(y) /\ StrictlyIncreasing(x)

NewSpline(x, y) == [built |-> TRUE, x |-> x, y |-> Prefix(y, Len(x))]

(* FdmBlackScholesSolver::performCalculations *)
PerformCalculations(s, fail, ub) ==
    LET rb == s.nRollbacks + 1
        r == Rollback(initialValues_, s.snap, conditions_, desc.maturity,
                      rb, proc, fail)
        copied == CopyToResult(r.rhs, s.result)
        s0 == [s EXCEPT !.nPerform = @ + 1]
        s1 == [s0 EXCEPT !.nRollbacks = rb, !.snap = r.snap]
        s2 == [s1 EXCEPT !.result = copied.vals, !.oob = copied.oob]
    IN  IF fail = "operator" THEN [s0 EXCEPT !.threw = TRUE]
        ELSE IF ~r.ok THEN [s1 EXCEPT !.threw = TRUE]
        ELSE IF copied.oob > 0 /\ ub = "crash"
        THEN [s1 EXCEPT !.oob = copied.oob, !.crashed = TRUE]
        ELSE IF fail = "interpolation" \/ ~SplineBuildable(x_, copied.vals)
        THEN [s2 EXCEPT !.threw = TRUE]
        ELSE [s2 EXCEPT !.interp = NewSpline(x_, copied.vals), !.nDone = @ + 1]

(* LazyObject::calculate: recalculates a stale cache and marks it valid;   *)
(* a recalculation that throws leaves it stale                             *)
Calculate(s, fail, ub) ==
    IF s.calculated
    THEN s
    ELSE LET r == PerformCalculations([s EXCEPT !.calculated = TRUE], fail, ub)
         IN  IF r.threw THEN [r EXCEPT !.calculated = FALSE] ELSE r

(* A variant: the recalculation run whatever the flag says *)
RecalculateAlways(s, fail, ub) ==
    LET r == PerformCalculations([s EXCEPT !.calculated = TRUE], fail, ub)
    IN  IF r.threw THEN [r EXCEPT !.calculated = FALSE] ELSE r

(* The queries' "calculate();" *)
QueryCalculate(s, fail, ub) == Calculate(s, fail, ub)

----------------------------------------------------------------------------
(* Queries *)

(* interpolation(std::log(s)) and its derivatives: the logarithm of a      *)
(* non-positive s is no coordinate of the interpolation's range            *)
Evaluable(spot) == spot > 0

(* valueAt, deltaAt, gammaAt: calculate(), then the interpolation at log s *)
QueryOn(s, spot, fail, ub) ==
    LET c == QueryCalculate(s, fail, ub)
    IN  [s |-> c,
         outcome |-> IF c.crashed THEN "crash"
                     ELSE IF c.threw THEN "error:calc"
                     ELSE IF ~Evaluable(spot) THEN "error:range"
                     ELSE "value"]

(* A variant: a front of 0 let through *)
ThetaPreconditionOrZero(conds) ==
    conds.stoppingTimes # {} /\ MinOf(conds.stoppingTimes) >= 0

(* QL_REQUIRE(conditions_->stoppingTimes().front() > 0.0, ...) *)
ThetaPrecondition(conds) ==
    conds.stoppingTimes # {} /\ MinOf(conds.stoppingTimes) > 0

(* thetaAt *)
ThetaOn(s, spot, fail, ub) ==
    IF ~ThetaPrecondition(conditions_)
    THEN [s |-> s, outcome |-> "error:domain"]
    ELSE LET c == QueryCalculate(s, fail, ub)
             thetaValues == CopyToResult(c.snap.values,
                                         [k \in 1..Len(c.result) |-> Unset])
             v == QueryOn(c, spot, fail, ub)
         IN  IF c.crashed THEN [s |-> c, outcome |-> "crash"]
             ELSE IF c.threw THEN [s |-> c, outcome |-> "error:calc"]
             ELSE IF ~c.snap.captured THEN [s |-> c, outcome |-> "error:not_captured"]
             ELSE IF thetaValues.oob > 0 /\ ub = "crash"
             THEN [s |-> [c EXCEPT !.crashed = TRUE], outcome |-> "crash"]
             ELSE IF ~SplineBuildable(x_, thetaValues.vals)
             THEN [s |-> c, outcome |-> "error:calc"]
             ELSE IF ~Evaluable(spot) THEN [s |-> c, outcome |-> "error:range"]
             ELSE v

(* The state after a query *)
Apply(op, spot, r) ==
    LET c == r.s
        val == r.outcome = "value"
    IN  /\ phase' = IF c.crashed THEN "crashed" ELSE phase
        /\ calculated_' = c.calculated
        /\ resultValues_' = c.result
        /\ interpolation_' = c.interp
        /\ thetaCondition_' = c.snap
        /\ oobWrites' = c.oob
        /\ nPerform' = c.nPerform
        /\ nDone' = c.nDone
        /\ nRollbacks' = c.nRollbacks
        /\ nCalls' = nCalls + 1
        /\ lastCall' = [op |-> op, spot |-> spot, outcome |-> r.outcome,
                        hit |-> calculated_,
                        ver |-> IF val THEN c.interp.y[1].ver ELSE 0,
                        rbVal |-> IF val THEN c.interp.y[1].rb ELSE 0,
                        rbSnap |-> IF val /\ op = "thetaAt"
                                   THEN c.snap.values[1].rb ELSE 0,
                        afterReject |-> lastCall.outcome = "error:domain"]
        /\ UNCHANGED <<desc, proc, registered, x_, initialValues_, conditions_>>

CanQuery == phase = "ready" /\ nCalls < MaxCalls

ValueAt ==
    /\ CanQuery
    /\ \E spot \in Spots, run \in Runs :
           Apply("valueAt", spot, QueryOn(Cur, spot, run[1], run[2]))

DeltaAt ==
    /\ CanQuery
    /\ \E spot \in Spots, run \in Runs :
           Apply("deltaAt", spot, QueryOn(Cur, spot, run[1], run[2]))

GammaAt ==
    /\ CanQuery
    /\ \E spot \in Spots, run \in Runs :
           Apply("gammaAt", spot, QueryOn(Cur, spot, run[1], run[2]))

ThetaAt ==
    /\ CanQuery
    /\ \E spot \in Spots, run \in Runs :
           Apply("thetaAt", spot, ThetaOn(Cur, spot, run[1], run[2]))

(* The process changes and notifies its observers; LazyObject::update      *)
(* marks the cache stale                                                   *)
Update ==
    /\ phase = "ready"
    /\ proc < MaxProc
    /\ proc' = proc + 1
    /\ calculated_' = IF registered THEN FALSE ELSE calculated_
    /\ nPerform' = 0
    /\ nDone' = 0
    /\ UNCHANGED <<phase, desc, registered, x_, initialValues_, resultValues_,
                   interpolation_, thetaCondition_, conditions_, oobWrites,
                   nRollbacks, nCalls, lastCall>>

Next ==
    \/ \E d \in Descs : Construct(d)
    \/ ValueAt
    \/ DeltaAt
    \/ GammaAt
    \/ ThetaAt
    \/ Update

Spec == Init /\ [][Next]_vars

----------------------------------------------------------------------------
(* Properties *)

IsQuery == nCalls' = nCalls + 1

CacheUnchanged == UNCHANGED <<resultValues_, interpolation_, thetaCondition_>>

C2_LazyInvalidation ==
    [][/\ phase' = "ready" => registered'
       /\ proc' # proc =>
             /\ ~calculated_'
             /\ nRollbacks' = nRollbacks
             /\ CacheUnchanged
       /\ (IsQuery /\ ~calculated_ /\ lastCall'.outcome # "error:domain") =>
             nPerform' = nPerform + 1
       /\ (IsQuery /\ lastCall'.outcome = "value") =>
             lastCall'.ver = proc']_vars

(* C2, reached: after two notifications a query recalculated and returned  *)
(* a value of the current process state                                    *)
C2_RecomputedAfterChange ==
    /\ lastCall.outcome = "value"
    /\ ~lastCall.hit
    /\ proc = 2
    /\ lastCall.ver = proc
    /\ nRollbacks = 2

(* C3: if the earliest stopping time of the supplied conditions is 0,      *)
(* thetaAt fails with the domain error for every spot, and the call        *)
(* changes nothing of the solver: no recalculation, no rollback, the cache *)
(* and its flag as before, the solver still usable.                        *)
C3_ThetaRejected ==
    [][(IsQuery /\ lastCall'.op = "thetaAt"
          /\ desc.stops # {} /\ MinOf(desc.stops) = 0) =>
        /\ lastCall'.outcome = "error:domain"
        /\ CacheUnchanged
        /\ UNCHANGED <<phase, calculated_, oobWrites, nPerform, nDone,
                       nRollbacks>>]_vars

(* C3, reached: thetaAt was rejected for a stopping time of 0 and the next  *)
(* valueAt returned a value                                                *)
C3_ValueAfterRejection ==
    /\ 0 \in desc.stops
    /\ lastCall.afterReject
    /\ lastCall.op = "valueAt"
    /\ lastCall.outcome = "value"

(* C4 as stated: a query with a non-positive spot ends in an error and     *)
(* computes nothing: no recalculation, the cache and its flag unchanged;   *)
(* stated for a descriptor of positive maturity.                           *)
C4_SpotRejectedFirst ==
    [][(IsQuery /\ desc.maturity > 0 /\ lastCall'.spot <= 0) =>
        /\ lastCall'.outcome \in {"error:range", "error:domain"}
        /\ nPerform' = nPerform
        /\ calculated_' = calculated_
        /\ CacheUnchanged]_vars

(* C5 as stated: a descriptor without mesher or calculator, or with a      *)
(* non-positive maturity, never yields a usable solver.                    *)
C5_ConstructionRejects ==
    phase = "ready" =>
        desc.mesher /\ desc.calculator /\ desc.maturity > 0

(* C6 as stated: a valid cache holds result values, an interpolation and   *)
(* a snapshot of one and the same rollback, and a recalculation that fails *)
(* leaves the result values and the interpolation of a previously valid    *)
(* cache unmodified; stated for a descriptor of positive maturity.         *)
C6_Atomic ==
    /\ [](calculated_ /\ phase = "ready" =>
            /\ interpolation_.built
            /\ interpolation_.y = resultValues_
            /\ thetaCondition_.captured =>
                  thetaCondition_.values[1].rb = resultValues_[1].rb)
    /\ [][(IsQuery /\ desc.maturity > 0 /\ interpolation_.built
              /\ lastCall'.outcome = "error:calc")
            => UNCHANGED <<resultValues_, interpolation_>>]_vars

(* C7 as stated: the snapshot time is 0.99 * min(1/365, t_first), never    *)
(* later than t_first, the earliest stopping time of the merged            *)
(* conditions, positive exactly when t_first is, and positive whenever     *)
(* thetaAt's check passes.                                                 *)
C7_SnapshotTime ==
    phase = "ready" =>
        /\ thetaCondition_.t = SnapNum * Min(OneDay, FirstTime(desc))
        /\ thetaCondition_.t <= Scale * FirstTime(desc)
        /\ thetaCondition_.t = MinOf(conditions_.stoppingTimes)
        /\ thetaCondition_.t > 0 <=> FirstTime(desc) > 0
        /\ ThetaPrecondition(conditions_) => thetaCondition_.t > 0

(* C8 as stated: the result values have length dim(0), nothing is written  *)
(* past their end, and the initial values stay as constructed; stated for  *)
(* a descriptor of positive maturity.                                      *)
C8_ResultIsPrefix ==
    desc.maturity > 0 =>
        /\ oobWrites = 0
        /\ phase = "ready" =>
              /\ Len(resultValues_) = LayoutDim0(desc)
              /\ initialValues_ = InitialValues(desc)

(* C9 as stated: after construction the coordinates have length dim(0),    *)
(* the initial values hold every grid point's value at its index, and an   *)
(* interpolation has as many values as coordinates; stated for a           *)
(* descriptor of positive maturity.                                        *)
C9_CoordinatesLength ==
    (phase = "ready" /\ desc.maturity > 0) =>
        /\ Len(x_) = LayoutDim0(desc)
        /\ \A k \in 1..Len(initialValues_) : initialValues_[k].src = k - 1
        /\ interpolation_.built => Len(interpolation_.x) = Len(interpolation_.y)

====
